---- MODULE Spec2Model ----
(***************************************************************************)
(* CarbonLens AI (src/app.py): the emission estimator, the what-if         *)
(* projection nested in the "calculate" button handler, and the Streamlit  *)
(* session state that keeps the last baseline and the last projection.     *)
(*                                                                         *)
(* The file as it stands does not compile: line 136 is an `if` with no     *)
(* indented body, so Python raises IndentationError (reported at line 138) *)
(* before the first statement runs.  The program is modelled as that       *)
(* (Spec).  What the statements say is modelled apart from it, piece by    *)
(* piece, each piece applied to inputs it is given: the function           *)
(* calculate_emissions (SpecEst), the expressions of the projected         *)
(* breakdown (SpecProj) and the statements of lines 4-133 (SpecBody).      *)
(*                                                                         *)
(* Units.  Habit inputs are whole numbers of km, kWh, meals and kg.        *)
(* Emission factors are in hundredths of a kg (0.14 -> 14).  Every value   *)
(* the code rounds to 2 decimals is kept as its number of hundredths       *)
(* (0.51 t -> 51).  Reduction percentages are whole numbers in 0..100.     *)
(* An optional value (Python None) is the empty tuple, a present value x   *)
(* is <<x>>.                                                               *)
(***************************************************************************)
EXTENDS Integers, Sequences, FiniteSets

VARIABLES
    session_keys,      \* keys present in st.session_state
    emissions,         \* st.session_state.emissions
    total_emissions,   \* st.session_state.total_emissions
    prediction,        \* st.session_state.prediction
    show_prediction,   \* st.session_state.get("show_prediction", False)
    outcome,           \* how the last script run of the program ended
    body_in,           \* session state and widget values given to lines 4-133
    body_out,          \* session state and outcome those lines leave
    est_in,            \* arguments of a direct call of calculate_emissions
    est_out,           \* what that call returned or raised
    proj_in,           \* inputs of a pair of projections
    proj_out           \* the two projected breakdowns

vars == <<session_keys, emissions, total_emissions, prediction, show_prediction,
          outcome, body_in, body_out, est_in, est_out, proj_in, proj_out>>

sessionVars == <<session_keys, emissions, total_emissions, prediction, show_prediction,
                 outcome>>

None == <<>>

Some(x) == <<x>>

IsSet(x) == x # None

Get(x) == x[1]

Abs(x) == IF x < 0 THEN -x ELSE x

(***************************************************************************)
(* Bounds of the model.                                                    *)
(***************************************************************************)
\* projections: the two reductions held fixed take the values 100*k/ReductionLevels
ReductionLevels == 1

\* direct estimator calls: distance in -1..MaxDistance km
MaxDistance == 10

\* direct estimator calls: electricity in steps of ElectricityStep kWh
ElectricityStep == 50

MaxElectricitySteps == 4

\* direct estimator calls: meals in -1..MaxMeals
MaxMeals == 4

\* direct estimator calls: waste in -1..MaxWaste kg
MaxWaste == 5

\* projections: reductions are multiples of ProjReductionStep percent
ProjReductionStep == 10

\* projections: distance and meals in 0..MaxProjQuantity
MaxProjQuantity == 3

(***************************************************************************)
(* Program constants.                                                      *)
(***************************************************************************)
DistanceMin == 0

DistanceDefault == 10

ElectricityDefault == 200

MealsDefault == 3

WasteDefault == 5

EMISSION_FACTORS ==
    [India |-> [transport |-> 14, electricity |-> 82, diet |-> 125, waste |-> 10]]

(***************************************************************************)
(* round(x, 2) of the double x = num/den hundredths.  Away from a decimal  *)
(* tie the double's error (about 1e-16 relative) cannot change the result, *)
(* so the nearest integer of the exact quotient is taken.  At an exact     *)
(* decimal tie the result is decided by which side of the tie the double   *)
(* landed on; `up` says so.                                                *)
(***************************************************************************)
round(num, den, up) ==
    LET a == Abs(num)
        q == a \div den
        r == a % den
        m == IF 2 * r > den THEN q + 1
             ELSE IF 2 * r < den THEN q
             ELSE IF up THEN q + 1 ELSE q
    IN  IF num < 0 THEN -m ELSE m

(***************************************************************************)
(* The inputs (category, quantity, reduction percent) at which the exact   *)
(* value factor*quantity*(1-pct/100)*period/1000 is a decimal tie and the  *)
(* IEEE-754 double evaluation, in the order the code multiplies and        *)
(* divides, lands above it.  Covers distance 0..100, electricity 0..1000,  *)
(* meals 0..12 and every percentage 0..100; at every other tie in that     *)
(* range the double lands below.  A baseline is the case pct = 0.          *)
(***************************************************************************)
FloatTiesUp ==
    { <<"transport", 50, 0>>, <<"transport", 100, 50>>,
      <<"electricity", 625, 10>>, <<"electricity", 625, 50>>, <<"electricity", 750, 25>>,
      <<"diet", 3, 20>>, <<"diet", 5, 84>>, <<"diet", 6, 60>>, <<"diet", 7, 20>>,
      <<"diet", 8, 10>>, <<"diet", 8, 30>>, <<"diet", 8, 70>>, <<"diet", 9, 20>>,
      <<"diet", 10, 28>>, <<"diet", 10, 44>>, <<"diet", 12, 40>> }

TieUp(category, quantity, pct) == <<category, Abs(quantity), pct>> \in FloatTiesUp

(***************************************************************************)
(* calculate_emissions, lines 29-45.  EMISSION_FACTORS[country] raises     *)
(* KeyError for a country that is no key; nothing else is checked.         *)
(***************************************************************************)
calculate_emissions_total_without_waste(dist, elec, mls, wst, country) ==
    IF country \notin DOMAIN EMISSION_FACTORS
    THEN [status |-> "KeyError", data |-> None, total |-> None]
    ELSE
    LET factors == EMISSION_FACTORS[country]
        data == [Transportation |-> round(factors.transport * dist * 365, 1000, TieUp("transport", dist, 0)),
                 Electricity |-> round(factors.electricity * elec * 12, 1000, TieUp("electricity", elec, 0)),
                 Diet |-> round(factors.diet * mls * 365, 1000, TieUp("diet", mls, 0)),
                 Waste |-> round(factors.waste * wst * 52, 1000, TieUp("waste", wst, 0))]
    IN  [status |-> "ok", data |-> Some(data),
         total |-> Some(data.Transportation + data.Electricity + data.Diet)]

calculate_emissions_waste_daily(dist, elec, mls, wst, country) ==
    IF country \notin DOMAIN EMISSION_FACTORS
    THEN [status |-> "KeyError", data |-> None, total |-> None]
    ELSE
    LET factors == EMISSION_FACTORS[country]
        data == [Transportation |-> round(factors.transport * dist * 365, 1000, TieUp("transport", dist, 0)),
                 Electricity |-> round(factors.electricity * elec * 12, 1000, TieUp("electricity", elec, 0)),
                 Diet |-> round(factors.diet * mls * 365, 1000, TieUp("diet", mls, 0)),
                 Waste |-> round(factors.waste * wst * 365, 1000, TieUp("waste", wst, 0))]
    IN  [status |-> "ok", data |-> Some(data),
         total |-> Some(data.Transportation + data.Electricity + data.Diet + data.Waste)]

calculate_emissions(dist, elec, mls, wst, country) ==
    IF country \notin DOMAIN EMISSION_FACTORS
    THEN [status |-> "KeyError", data |-> None, total |-> None]
    ELSE
    LET factors == EMISSION_FACTORS[country]
        transport_kg == factors.transport * dist * 365
        electricity_kg == factors.electricity * elec * 12
        diet_kg == factors.diet * mls * 365
        waste_kg == factors.waste * wst * 52
        data == [Transportation |-> round(transport_kg, 1000, TieUp("transport", dist, 0)),
                 Electricity |-> round(electricity_kg, 1000, TieUp("electricity", elec, 0)),
                 Diet |-> round(diet_kg, 1000, TieUp("diet", mls, 0)),
                 Waste |-> round(waste_kg, 1000, TieUp("waste", wst, 0))]
        \* round(sum(data.values()), 2): a sum of doubles that are each within
        \* 1e-15 of a hundredth is never near a tie
        total == data.Transportation + data.Electricity + data.Diet + data.Waste
    IN  [status |-> "ok", data |-> Some(data), total |-> Some(total)]

(***************************************************************************)
(* The projected breakdown, lines 102-113: the three reducible quantities  *)
(* scaled by (1 - reduction/100), the estimator's formulas applied to the  *)
(* scaled quantities, and the baseline's Waste entry copied.               *)
(***************************************************************************)
prediction_breakdown_wrong_sign(dist, elec, mls, em, country, rt, re, rm) ==
    LET factors == EMISSION_FACTORS[country]
    IN  [Transportation |-> round(factors.transport * (dist * (100 + rt)) * 365, 100 * 1000, FALSE),
         Electricity |-> round(factors.electricity * (elec * (100 + re)) * 12, 100 * 1000, FALSE),
         Diet |-> round(factors.diet * (mls * (100 + rm)) * 365, 100 * 1000, FALSE),
         Waste |-> em.Waste]

prediction_breakdown_wrong_key(dist, elec, mls, em, country, rt, re, rm) ==
    LET factors == EMISSION_FACTORS[country]
    IN  [Transportation |-> round(factors.transport * (dist * (100 - rt)) * 365, 100 * 1000,
                                  TieUp("transport", dist, rt)),
         Electricity |-> round(factors.electricity * (elec * (100 - re)) * 12, 100 * 1000,
                               TieUp("electricity", elec, re)),
         Diet |-> round(factors.diet * (mls * (100 - rm)) * 365, 100 * 1000,
                        TieUp("diet", mls, rm)),
         Waste |-> em.Diet]

prediction_breakdown(dist, elec, mls, em, country, rt, re, rm) ==
    LET factors == EMISSION_FACTORS[country]
        \* pred_x = x * (1 - reduction / 100), kept as the numerator over 100
        pred_distance == dist * (100 - rt)
        pred_electricity == elec * (100 - re)
        pred_meals == mls * (100 - rm)
    IN  [Transportation |-> round(factors.transport * pred_distance * 365, 100 * 1000,
                                  TieUp("transport", dist, rt)),
         Electricity |-> round(factors.electricity * pred_electricity * 12, 100 * 1000,
                               TieUp("electricity", elec, re)),
         Diet |-> round(factors.diet * pred_meals * 365, 100 * 1000,
                        TieUp("diet", mls, rm)),
         Waste |-> em.Waste]

(***************************************************************************)
(* Lines 4-8: a key that is missing from the session state is created      *)
(* holding None.                                                           *)
(***************************************************************************)
session_init(ss) ==
    [keys |-> ss.keys \cup {"emissions", "total_emissions", "prediction"},
     emissions |-> IF "emissions" \in ss.keys THEN ss.emissions ELSE None,
     total_emissions |-> IF "emissions" \in ss.keys THEN ss.total_emissions ELSE None,
     prediction |-> IF "prediction" \in ss.keys THEN ss.prediction ELSE None]

(***************************************************************************)
(* Line 74: the body of `if st.button(...)` is entered when the button     *)
(* reports a click.                                                        *)
(***************************************************************************)
calculate_branch_unguarded(button) == TRUE

calculate_branch(button) == button

(***************************************************************************)
(* The predictive block, lines 98-133, entered with the baseline already   *)
(* written to the session state (lines 80-81).  Line 104 reads             *)
(* reduction_transport, a name that no line of the file binds: Python      *)
(* raises NameError there, before the breakdown is computed, before the    *)
(* division of line 118, before the session state is written at line 122   *)
(* and before the message of lines 128-133.                                *)
(***************************************************************************)
predictive_block(ss) ==
    [ss |-> ss, outcome |-> "NameError", insight |-> None]

(***************************************************************************)
(* The statements of lines 4-133, executed on a session state ss0 with the *)
(* values the widgets and the button return.  The file never gets to       *)
(* execute them (see script below); this is what they do when executed.    *)
(***************************************************************************)
script_body(ss0, button, show, dist, elec, mls, wst, country) ==
    LET ss == session_init(ss0)
    IN  IF ~calculate_branch(button)
        THEN [ss |-> ss, outcome |-> "idle", insight |-> None]
        ELSE LET res == calculate_emissions(dist, elec, mls, wst, country)
                 ss1 == [ss EXCEPT !.emissions = res.data,
                                   !.total_emissions = res.total]
             IN  IF show
                 THEN predictive_block(ss1)
                 ELSE [ss |-> ss1, outcome |-> "baseline", insight |-> None]

(***************************************************************************)
(* One script run of src/app.py.  Streamlit compiles the file before it    *)
(* executes it; compiling fails at lines 136-138 (an `if` without a body,  *)
(* IndentationError), so no statement is executed, no widget is drawn and  *)
(* the session state is left as it was.                                    *)
(***************************************************************************)
script(ss) == [ss |-> ss, outcome |-> "IndentationError"]

Outcomes == {"IndentationError"}

SessionState == [keys |-> session_keys, emissions |-> emissions,
                 total_emissions |-> total_emissions, prediction |-> prediction]

ShowPrediction == IF "show_prediction" \in session_keys THEN show_prediction ELSE FALSE

ReductionValues == {(100 * k) \div ReductionLevels : k \in 0..ReductionLevels}

(***************************************************************************)
(* A fresh session: no key yet, no script run yet.                         *)
(***************************************************************************)
InitSession ==
    /\ session_keys = {}
    /\ emissions = None
    /\ total_emissions = None
    /\ prediction = None
    /\ show_prediction = FALSE
    /\ outcome = None

NoCalls ==
    /\ body_in = None
    /\ body_out = None
    /\ est_in = None
    /\ est_out = None
    /\ proj_in = None
    /\ proj_out = None

Init == InitSession /\ NoCalls

Run ==
    \E r \in {script(SessionState)} :
        /\ session_keys' = r.ss.keys \cup (session_keys \cap {"show_prediction"})
        /\ emissions' = r.ss.emissions
        /\ total_emissions' = r.ss.total_emissions
        /\ prediction' = r.ss.prediction
        /\ outcome' = Some(r.outcome)
        /\ UNCHANGED <<show_prediction, body_in, body_out,
                       est_in, est_out, proj_in, proj_out>>

\* the page is loaded or reloaded; with no widget and no button drawn this is
\* the only way the script is run
Rerun == Run

\* the session key show_prediction is written; nothing in app.py writes it
SetShowPrediction ==
    /\ \E b \in BOOLEAN :
          /\ b # ShowPrediction
          /\ show_prediction' = b
    /\ session_keys' = session_keys \cup {"show_prediction"}
    /\ UNCHANGED <<emissions, total_emissions, prediction, outcome,
                   body_in, body_out, est_in, est_out, proj_in, proj_out>>

Next ==
    \/ Rerun
    \/ SetShowPrediction

Spec == Init /\ [][Next]_vars

(***************************************************************************)
(* The statements of lines 4-133 applied once to a session state those     *)
(* statements can leave (no key yet; the keys created and empty; a         *)
(* baseline recorded from some widget values), with the widgets at their   *)
(* minimum or their default, the button clicked or not, and the session    *)
(* key show_prediction true or not.  No such session state has a recorded  *)
(* scenario: the statements never get past line 104.                       *)
(***************************************************************************)
DistanceValues == {DistanceMin, DistanceDefault}

ElectricityValues == {0, ElectricityDefault}

MealsValues == {0, MealsDefault}

WasteValues == {0, WasteDefault}

FreshSession ==
    [keys |-> {}, emissions |-> None, total_emissions |-> None, prediction |-> None]

RecordedSession(dist, elec, mls, wst) ==
    script_body(FreshSession, TRUE, FALSE, dist, elec, mls, wst, "India").ss

BodySessions ==
    {FreshSession, session_init(FreshSession)}
      \cup {RecordedSession(d, e, m, w) :
               d \in DistanceValues, e \in ElectricityValues,
               m \in MealsValues, w \in WasteValues}

BodyOutcomes == {"idle", "baseline", "NameError"}

InitBody ==
    /\ InitSession
    /\ body_in \in {Some([ss |-> s, button |-> b, show |-> sh,
                          distance |-> d, electricity |-> e, meals |-> m, waste |-> w]) :
                      s \in BodySessions, b \in BOOLEAN, sh \in BOOLEAN,
                      d \in DistanceValues, e \in ElectricityValues,
                      m \in MealsValues, w \in WasteValues}
    /\ body_out = None
    /\ est_in = None
    /\ est_out = None
    /\ proj_in = None
    /\ proj_out = None

RunBody ==
    /\ body_out = None
    /\ body_out' = Some(script_body(Get(body_in).ss, Get(body_in).button, Get(body_in).show,
                                    Get(body_in).distance, Get(body_in).electricity,
                                    Get(body_in).meals, Get(body_in).waste, "India"))
    /\ UNCHANGED <<sessionVars, body_in, est_in, est_out, proj_in, proj_out>>

NextBody == RunBody

SpecBody == InitBody /\ [][NextBody]_vars

(***************************************************************************)
(* Direct calls of calculate_emissions, with arguments that no widget      *)
(* would deliver (negative quantities, a country that is no key).          *)
(***************************************************************************)
EstDistances == (-1)..MaxDistance

EstElectricities == {ElectricityStep * k : k \in (-1)..MaxElectricitySteps}

EstMeals == (-1)..MaxMeals

EstWastes == (-1)..MaxWaste

EstCountries == {"India", "Atlantis"}

InitEst ==
    /\ InitSession
    /\ est_in \in {Some([distance |-> d, electricity |-> e, meals |-> m, waste |-> w,
                         country |-> c]) :
                     d \in EstDistances, e \in EstElectricities, m \in EstMeals,
                     w \in EstWastes, c \in EstCountries}
    /\ est_out = None
    /\ body_in = None
    /\ body_out = None
    /\ proj_in = None
    /\ proj_out = None

Estimate ==
    /\ est_out = None
    /\ est_out' = Some(calculate_emissions(Get(est_in).distance, Get(est_in).electricity,
                                           Get(est_in).meals, Get(est_in).waste,
                                           Get(est_in).country))
    /\ UNCHANGED <<sessionVars, body_in, body_out, est_in, proj_in, proj_out>>

NextEst == Estimate

SpecEst == InitEst /\ [][NextEst]_vars

(***************************************************************************)
(* Pairs of projections of one baseline that differ in the reduction of    *)
(* one category only: that category goes from p1 to p2 > p1, both multiples *)
(* of ProjReductionStep, the other two keep a value of ReductionValues.    *)
(***************************************************************************)
ProjQuantities == 0..MaxProjQuantity

ProjReductions == {p \in 0..100 : p % ProjReductionStep = 0}

Categories == {"transport", "electricity", "meals"}

InitProj ==
    /\ InitSession
    /\ body_in = None
    /\ body_out = None
    /\ est_in = None
    /\ est_out = None
    /\ proj_in \in {Some([distance |-> d, electricity |-> e, meals |-> m, waste |-> w,
                          first |-> [r EXCEPT ![c] = p1], category |-> c, second |-> p2]) :
                      d \in ProjQuantities, e \in ElectricityValues, m \in ProjQuantities,
                      w \in WasteValues, r \in [Categories -> ReductionValues], c \in Categories,
                      p1 \in ProjReductions, p2 \in ProjReductions}
    /\ Get(proj_in).first[Get(proj_in).category] < Get(proj_in).second
    /\ proj_out = None

Project ==
    /\ proj_out = None
    /\ LET in == Get(proj_in)
           r1 == in.first
           r2 == [r1 EXCEPT ![in.category] = in.second]
           em == Get(calculate_emissions(in.distance, in.electricity, in.meals,
                                         in.waste, "India").data)
       IN  proj_out' =
             Some([baseline |-> em,
                   first |-> prediction_breakdown(in.distance, in.electricity, in.meals, em,
                                "India", r1["transport"], r1["electricity"], r1["meals"]),
                   second |-> prediction_breakdown(in.distance, in.electricity, in.meals, em,
                                "India", r2["transport"], r2["electricity"], r2["meals"])])
    /\ UNCHANGED <<sessionVars, body_in, body_out, est_in, est_out, proj_in>>

NextProj == Project

SpecProj == InitProj /\ [][NextProj]_vars

(***************************************************************************)
(* Properties.                                                             *)
(***************************************************************************)

\* C3 (as claimed): a projection attempted on the baseline of an all-zero input
\* does not end in an uncaught exception and reports an absolute saving of 0.
C3_DivisionUndefinedReported ==
    (/\ IsSet(body_out)
     /\ Get(body_in).button /\ Get(body_in).show
     /\ Get(body_in).distance = 0 /\ Get(body_in).electricity = 0
     /\ Get(body_in).meals = 0 /\ Get(body_in).waste = 0)
      => (/\ Get(body_out).outcome # "NameError"
          /\ IsSet(Get(body_out).insight)
          /\ Get(Get(body_out).insight).saving = 0)

\* C4 (as claimed): statements that fail part-way leave the recorded baseline,
\* the recorded total and the recorded scenario as they were before.
C4_FailingActionChangesNothing ==
    (IsSet(body_out) /\ Get(body_out).outcome = "NameError")
      => (/\ Get(body_out).ss.emissions = Get(body_in).ss.emissions
          /\ Get(body_out).ss.total_emissions = Get(body_in).ss.total_emissions
          /\ Get(body_out).ss.prediction = Get(body_in).ss.prediction)

\* C5: statements run with the button reporting no click leave the recorded
\* baseline categories, the recorded total and the recorded scenario unchanged;
\* the recorded baseline changes only when the button reports a click.
C5_NoClickNoChange ==
    IsSet(body_out)
      => (/\ ~Get(body_in).button
                => (/\ Get(body_out).ss.emissions = Get(body_in).ss.emissions
                    /\ Get(body_out).ss.total_emissions = Get(body_in).ss.total_emissions
                    /\ Get(body_out).ss.prediction = Get(body_in).ss.prediction)
          /\ (\/ Get(body_out).ss.emissions # Get(body_in).ss.emissions
              \/ Get(body_out).ss.total_emissions # Get(body_in).ss.total_emissions)
                => Get(body_in).button)

\* C5 witness: the statements have run without a click on a session state
\* whose recorded baseline is not the one the widget values would give.
C5_Witness ==
    /\ IsSet(body_out)
    /\ ~Get(body_in).button
    /\ Get(body_out).outcome = "idle"
    /\ IsSet(Get(body_out).ss.emissions)
    /\ IsSet(Get(body_out).ss.total_emissions)
    /\ Get(body_out).ss.emissions
         # calculate_emissions(Get(body_in).distance, Get(body_in).electricity,
                               Get(body_in).meals, Get(body_in).waste, "India").data

\* C8: the Waste entry of a projected breakdown equals the Waste entry of the
\* baseline it was projected from, whatever the reductions are.
C8_WasteInvariance ==
    IsSet(proj_out)
      => (/\ Get(proj_out).first.Waste = Get(proj_out).baseline.Waste
          /\ Get(proj_out).second.Waste = Get(proj_out).baseline.Waste)

\* C8 witness: a projection with a real reduction of a baseline whose waste is
\* not 0 and differs from its diet.
C8_Witness ==
    /\ IsSet(proj_out)
    /\ Get(proj_out).baseline.Waste > 0
    /\ Get(proj_out).baseline.Waste # Get(proj_out).baseline.Diet
    /\ Get(proj_out).second.Transportation < Get(proj_out).baseline.Transportation

ReferenceInput ==
    [distance |-> 10, electricity |-> 200, meals |-> 3, waste |-> 5, country |-> "India"]

\* C6 (as claimed): the reference input yields 0.51, 1.97, 1.37, waste 0.26 and
\* total 4.11.
C6_ReferenceAsClaimed ==
    (IsSet(est_out) /\ Get(est_in) = ReferenceInput)
      => (/\ Get(est_out).status = "ok"
          /\ Get(Get(est_out).data) = [Transportation |-> 51, Electricity |-> 197,
                                       Diet |-> 137, Waste |-> 26]
          /\ Get(Get(est_out).total) = 411)

\* C6 (amended): the reference input yields 0.51, 1.97, 1.37, waste 0.03 and
\* total 3.88, the total being the sum of the four rounded categories.
C6_ReferenceScenario ==
    (IsSet(est_out) /\ Get(est_in) = ReferenceInput)
      => (/\ Get(est_out).status = "ok"
          /\ Get(Get(est_out).data) = [Transportation |-> 51, Electricity |-> 197,
                                       Diet |-> 137, Waste |-> 3]
          /\ Get(Get(est_out).total) = 388)

\* C6 witness: the estimator has been called on the reference input.
C6_Witness == IsSet(est_out) /\ Get(est_in) = ReferenceInput

ValidHabitInput(in) ==
    in.distance >= 0 /\ in.electricity >= 0 /\ in.meals >= 0 /\ in.waste >= 0

\* C9 (as claimed): the estimator called with a HabitInput field outside its
\* domain fails and returns no footprint.
C9_InvalidInputRejected ==
    (IsSet(est_out) /\ ~ValidHabitInput(Get(est_in)))
      => (Get(est_out).status # "ok" /\ ~IsSet(Get(est_out).data)
          /\ ~IsSet(Get(est_out).total))

\* the unrounded sum of the four categories rounded once, in hundredths
RoundedOnce(in) ==
    LET f == EMISSION_FACTORS[in.country]
    IN  round(f.transport * in.distance * 365 + f.electricity * in.electricity * 12
              + f.diet * in.meals * 365 + f.waste * in.waste * 52, 1000, FALSE)

DoubleRoundingGap ==
    Abs(Get(Get(est_out).total) - RoundedOnce(Get(est_in)))

EstimatedValidIndia ==
    /\ IsSet(est_out)
    /\ Get(est_in).country = "India"
    /\ ValidHabitInput(Get(est_in))

\* C10 (as claimed): for a valid input the returned total differs from the
\* once-rounded unrounded sum by at most 0.01.
C10_GapAtMostOneHundredth == EstimatedValidIndia => DoubleRoundingGap <= 1

\* C10 (amended): for a valid input the returned total differs from the
\* once-rounded unrounded sum by at most 0.02.
C10_GapAtMostTwoHundredths == EstimatedValidIndia => DoubleRoundingGap <= 2

\* C10 witness: a valid input whose total is 0.02 away from the once-rounded sum.
C10_Witness == EstimatedValidIndia /\ DoubleRoundingGap = 2

CategoryValue(b, c) ==
    IF c = "transport" THEN b.Transportation
    ELSE IF c = "electricity" THEN b.Electricity
    ELSE b.Diet

HabitQuantity(in, c) ==
    IF c = "transport" THEN in.distance
    ELSE IF c = "electricity" THEN in.electricity
    ELSE in.meals

\* C7 (as claimed): raising the reduction of one category from p1 to p2 > p1
\* never raises that category's projected value, and lowers it whenever the
\* habit input of the category is not 0.
C7_StrictlyDecreasing ==
    IsSet(proj_out) =>
      LET in == Get(proj_in)
          v1 == CategoryValue(Get(proj_out).first, in.category)
          v2 == CategoryValue(Get(proj_out).second, in.category)
      IN  v2 <= v1 /\ (HabitQuantity(in, in.category) # 0 => v2 < v1)

\* C7 (amended): raising the reduction of one category from p1 to p2 > p1
\* never raises that category's projected value.
C7_NonIncreasing ==
    IsSet(proj_out) =>
      CategoryValue(Get(proj_out).second, Get(proj_in).category)
        <= CategoryValue(Get(proj_out).first, Get(proj_in).category)

\* C7 witness: a larger reduction of a category with a habit input that is not
\* 0 has left the rounded projected value where it was.
C7_Witness ==
    /\ IsSet(proj_out)
    /\ HabitQuantity(Get(proj_in), Get(proj_in).category) # 0
    /\ Get(proj_in).first[Get(proj_in).category] < Get(proj_in).second
    /\ CategoryValue(Get(proj_out).second, Get(proj_in).category)
         = CategoryValue(Get(proj_out).first, Get(proj_in).category)

====
